---- MODULE Spec2Model ----
(***************************************************************************)
(* Model of the build pipeline of src/pdm_build.py: the pdm build hooks    *)
(* pdm_build_initialize / pdm_build_finalize and the steps of build().     *)
(* The state is the part of the filesystem the pipeline reads and writes   *)
(* (it outlives a run) plus the state of the running hook process.  Every  *)
(* external call (which, go install, urlretrieve, unpack_archive,          *)
(* pbs_installer.install, xcaddy build, copy to /install/lib) is a step    *)
(* whose outcome is chosen nondeterministically.                           *)
(***************************************************************************)
EXTENDS Integers, Sequences, FiniteSets, TLC

VARIABLES
    system,     \* platform.system() of the host
    archive,    \* text of caddysnake.c inside the upstream archive
    xcaddy,     \* <cwd>/xcaddy[.exe] exists
    zip,        \* <cwd>/caddy-snake.zip: "absent", "partial", "complete"
    target,     \* <cwd>/caddy-snake-main: [state, c, patches]
    python,     \* <cwd>/python: [exists, files]
    buildDir,   \* context.build_dir exists
    output,     \* <build_dir>/bin/mycaddy[.exe]: [exists, mode]
    binFiles,   \* files copied beside the artifact
    installLib, \* files copied to /install/lib
    pc,         \* position of the hook process
    environ,    \* os.environ of the hook process
    installEnv, \* env handed to "go install"
    buildEnv,   \* env handed to "xcaddy build"
    exitCode,   \* return code of "xcaddy build" (discarded by the code)
    error,      \* the exception that ended the run, or "none"
    effects,    \* what this run has done so far
    extFail,    \* an external step of this run failed
    cleanStart, \* this run started on a clean working and build directory
    fresh       \* the build command of this run wrote the output file

vars == <<system, archive, xcaddy, zip, target, python, buildDir, output,
          binFiles, installLib, pc, environ, installEnv, buildEnv, exitCode,
          error, effects, extFail, cleanStart, fresh>>

fsvars == <<xcaddy, zip, target, python, buildDir, output, binFiles, installLib>>

----------------------------------------------------------------------------
(* Bounds *)

\* texts of the archive are concatenations of at most MaxPieces pieces
MaxPieces == 2

----------------------------------------------------------------------------
(* Texts and the token rename, re.sub(r"(?<!_)environ", "environ_", s) *)

Pattern == <<"e", "n", "v", "i", "r", "o", "n">>

Replacement == Pattern \o <<"_">>

Pieces == {Pattern, <<"_">>, <<"x">>}

RECURSIVE TextsUpTo(_)
TextsUpTo(n) ==
    IF n = 0 THEN {<<>>}
    ELSE LET shorter == TextsUpTo(n - 1)
         IN  shorter \cup {t \o p : t \in shorter, p \in Pieces}

Texts == TextsUpTo(MaxPieces)

\* the pattern matches at position i: the literal is there and the
\* character before it (negative lookbehind) is not "_"
Lookbehind(s, i) == i = 1 \/ s[i - 1] # "_"

MatchAt(s, i) ==
    /\ i + Len(Pattern) - 1 <= Len(s)
    /\ SubSeq(s, i, i + Len(Pattern) - 1) = Pattern
    /\ Lookbehind(s, i)

RECURSIVE SubFrom(_, _)
SubFrom(s, i) ==
    IF i > Len(s) THEN <<>>
    ELSE IF MatchAt(s, i)
         THEN Replacement \o SubFrom(s, i + Len(Pattern))
         ELSE <<s[i]>> \o SubFrom(s, i + 1)

TokenRename(s) == SubFrom(s, 1)

----------------------------------------------------------------------------
(* Host, environment and file names *)

Systems == {"Windows", "Darwin", "Linux"}

is_windows == system = "Windows"

is_macos == system = "Darwin"

NoEnv == [n \in {} |-> ""]

EnvValues(n) ==
    CASE n = "GOOS" -> {"linux"}
      [] n = "GOARCH" -> {"arm64"}
      [] n = "CIBUILDWHEEL" -> {"0", "1"}
      [] n = "CGO_ENABLED" -> {"0"}

EnvNames == {"GOOS", "GOARCH", "CIBUILDWHEEL", "CGO_ENABLED"}

Environs ==
    UNION {{e \in [S -> {"0", "1", "linux", "arm64"}] :
                \A n \in S : e[n] \in EnvValues(n)} : S \in SUBSET EnvNames}

\* env[name] = value on a copy of env
SetEnv(env, name, value) ==
    [n \in DOMAIN env \cup {name} |-> IF n = name THEN value ELSE env[n]]

is_cibuildwheel ==
    (IF "CIBUILDWHEEL" \in DOMAIN environ THEN environ["CIBUILDWHEEL"] ELSE "0") = "1"

\* a check that forgets the second marker variable
CrossCompileGoosOnly == "GOOS" \in DOMAIN environ

CrossCompileRequested == "GOOS" \in DOMAIN environ \/ "GOARCH" \in DOMAIN environ

version == "3.12"

File(dir, pre, rest, ext) == [dir |-> dir, pre |-> pre, rest |-> rest, ext |-> ext]

\* Path(dir).glob(pre + "*." + ext)
Glob(files, dir, pre, ext) ==
    {f \in files : f.dir = dir /\ f.pre = pre /\ f.ext = ext}

PcFile == File("lib/pkgconfig", "python", "3-embed", "pc")

\* what pbs_installer.install leaves in <cwd>/python when it succeeds
PbsFiles ==
    CASE system = "Windows" ->
            {File("", "python", "", "exe"), File("", "python", "3", "dll"),
             File("", "python", version, "dll"), File("", "vcruntime", "140", "dll")}
      [] system = "Darwin" ->
            {File("bin", "python", "3", ""), File("lib", "libpython", version, "dylib"), PcFile}
      [] OTHER ->
            {File("bin", "python", "3", ""), File("lib", "libpython", version, "so"), PcFile}

NoTree == [state |-> "absent", c |-> <<>>, patches |-> 0]

PartialTree == [state |-> "partial", c |-> <<>>, patches |-> 0]

NoPython == [exists |-> FALSE, files |-> {}]

NoOutput == [exists |-> FALSE, mode |-> 0]

\* mode of an executable the build command has just written
DefaultMode == 493

\* a chmod that leaves group and others without write permission
ExecutableModeOwnerOnly == DefaultMode

ExecutableMode == 511

CleanDirs ==
    /\ ~xcaddy /\ zip = "absent" /\ target = NoTree /\ python = NoPython
    /\ ~buildDir /\ output = NoOutput /\ binFiles = {}

----------------------------------------------------------------------------
(* Conditions the code tests *)

\* a cache check that never hits
XcaddyNeverCached == FALSE

\* xcaddy.exists()
XcaddyExists == xcaddy

\* zip_path.exists(): true of a partially written file too
ZipExists == zip # "absent"

\* an extraction step that leaves an existing directory in place
TargetNeverRemoved == FALSE

\* target.exists() in setup_caddy_snake
TargetExists == target.state # "absent"

\* target.exists() in install_pbs
PythonExists == python.exists

\* a check that also looks at the return code (subprocess check=True)
OutputMissingOrNonZero == ~output.exists \/ exitCode # 0

\* not Path(output).exists(); nothing before it removes an output file that
\* an earlier run left in the build directory
OutputMissing == ~output.exists

\* a build environment that keeps the install step's GOBIN override
BuildEnvironmentWithGobin ==
    SetEnv(SetEnv(SetEnv(environ, "GOBIN", "cwd"), "CGO_ENABLED", "1"),
           "PKG_CONFIG_PATH", "cwd/python/lib/pkgconfig")

\* env of the build command
BuildEnvironment ==
    SetEnv(SetEnv(environ, "CGO_ENABLED", "1"),
           "PKG_CONFIG_PATH", "cwd/python/lib/pkgconfig")

\* env of the install command
InstallEnvironment == SetEnv(environ, "GOBIN", "cwd")

\* raise: the run ends with an exception
Raise(e) == /\ error' = e
            /\ pc' = "raised"

Did(what) == effects' = effects \cup what

----------------------------------------------------------------------------
(* The hook process *)

Init ==
    /\ system \in Systems
    /\ archive \in Texts
    /\ xcaddy = FALSE
    /\ zip = "absent"
    /\ target = NoTree
    /\ python = NoPython
    /\ buildDir = FALSE
    /\ output = NoOutput
    /\ binFiles = {}
    /\ installLib = {}
    /\ pc = "idle"
    /\ environ = NoEnv
    /\ installEnv = NoEnv
    /\ buildEnv = NoEnv
    /\ exitCode = 0
    /\ error = "none"
    /\ effects = {}
    /\ extFail = FALSE
    /\ cleanStart = TRUE
    /\ fresh = FALSE

\* the backend starts a hook process and calls pdm_build_initialize; an
\* earlier run may have raised, or returned without pdm_build_finalize
\* having been called afterwards
pdm_build_initialize ==
    /\ pc \in {"idle", "raised", "returned"}
    /\ environ' \in Environs
    /\ pc' = "do_not_cross_compile"
    /\ installEnv' = NoEnv
    /\ buildEnv' = NoEnv
    /\ exitCode' = 0
    /\ error' = "none"
    /\ effects' = {}
    /\ extFail' = FALSE
    /\ cleanStart' = CleanDirs
    /\ fresh' = FALSE
    /\ UNCHANGED <<system, archive, fsvars>>

do_not_cross_compile ==
    /\ pc = "do_not_cross_compile"
    /\ IF CrossCompileRequested
       THEN Raise("RuntimeError: cross-compilation is not supported")
       ELSE pc' = "ensure_build_dir" /\ UNCHANGED error
    /\ UNCHANGED <<system, archive, fsvars, environ, installEnv, buildEnv,
                   exitCode, effects, extFail, cleanStart, fresh>>

ensure_build_dir ==
    /\ pc = "ensure_build_dir"
    /\ buildDir' = TRUE
    /\ Did({"ensure_build_dir"})
    /\ pc' = "setup_xcaddy"
    /\ UNCHANGED <<system, archive, xcaddy, zip, target, python, output,
                   binFiles, installLib, environ, installEnv, buildEnv,
                   exitCode, error, extFail, cleanStart, fresh>>

\* get_go and "go install": shutil.which either finds go or not, the
\* install command either writes the executable or exits non-zero
setup_xcaddy ==
    /\ pc = "setup_xcaddy"
    /\ IF XcaddyExists
       THEN /\ pc' = "download"
            /\ UNCHANGED <<xcaddy, installEnv, error, effects, extFail>>
       ELSE \E found \in BOOLEAN, installed \in BOOLEAN :
              IF ~found
              THEN /\ Raise("RuntimeError: golang is required")
                   /\ Did({"which_go"})
                   /\ extFail' = TRUE
                   /\ UNCHANGED <<xcaddy, installEnv>>
              ELSE /\ Did({"which_go", "go_install"})
                   /\ installEnv' = InstallEnvironment
                   /\ IF installed
                      THEN /\ xcaddy' = TRUE
                           /\ pc' = "download"
                           /\ UNCHANGED <<error, extFail>>
                      ELSE /\ Raise("CalledProcessError: go install")
                           /\ extFail' = TRUE
                           /\ UNCHANGED xcaddy
    /\ UNCHANGED <<system, archive, zip, target, python, buildDir, output,
                   binFiles, installLib, environ, buildEnv, exitCode, cleanStart, fresh>>

\* urlretrieve writes the archive in place: a transfer that breaks leaves
\* nothing (no connection) or a partial file
download ==
    /\ pc = "download"
    /\ IF ZipExists
       THEN /\ pc' = "rmtree_target"
            /\ UNCHANGED <<zip, error, effects, extFail>>
       ELSE \E got \in {"complete", "partial", "absent"} :
              /\ zip' = got
              /\ Did({"download"})
              /\ IF got = "complete"
                 THEN pc' = "rmtree_target" /\ UNCHANGED <<error, extFail>>
                 ELSE Raise("URLError: download") /\ extFail' = TRUE
    /\ UNCHANGED <<system, archive, xcaddy, target, python, buildDir, output,
                   binFiles, installLib, environ, installEnv, buildEnv,
                   exitCode, cleanStart, fresh>>

rmtree_target ==
    /\ pc = "rmtree_target"
    /\ IF TargetExists
       THEN /\ target' = NoTree
            /\ Did({"rmtree_target"} \cup
                   (IF target.patches > 0 THEN {"removed_patched_tree"} ELSE {}))
       ELSE UNCHANGED <<target, effects>>
    /\ pc' = "unpack"
    /\ UNCHANGED <<system, archive, xcaddy, zip, python, buildDir, output,
                   binFiles, installLib, environ, installEnv, buildEnv,
                   exitCode, error, extFail, cleanStart, fresh>>

\* shutil.unpack_archive: a truncated archive cannot be read; a complete one
\* is extracted (files of the archive overwrite files of the same name),
\* unless writing the files fails part-way
unpack ==
    /\ pc = "unpack"
    /\ Did({"unpack"})
    /\ IF zip = "partial"
       THEN /\ Raise("ReadError: not a zip file")
            /\ UNCHANGED <<target, extFail>>
       ELSE \E written \in BOOLEAN :
              IF written
              THEN /\ target' = [state |-> "full", c |-> archive, patches |-> 0]
                   /\ pc' = "patch"
                   /\ UNCHANGED <<error, extFail>>
              ELSE /\ target' = PartialTree
                   /\ Raise("OSError: unpack")
                   /\ extFail' = TRUE
    /\ UNCHANGED <<system, archive, xcaddy, zip, python, buildDir, output,
                   binFiles, installLib, environ, installEnv, buildEnv,
                   exitCode, cleanStart, fresh>>

\* read caddysnake.c, rename the token, write it back
patch ==
    /\ pc = "patch"
    /\ IF target.state = "full"
       THEN /\ target' = [target EXCEPT !.c = TokenRename(@), !.patches = @ + 1]
            /\ Did({"patch"})
            /\ pc' = "rmtree_python"
            /\ UNCHANGED error
       ELSE /\ Raise("FileNotFoundError: caddysnake.c")
            /\ UNCHANGED <<target, effects>>
    /\ UNCHANGED <<system, archive, xcaddy, zip, python, buildDir, output,
                   binFiles, installLib, environ, installEnv, buildEnv,
                   exitCode, extFail, cleanStart, fresh>>

rmtree_python ==
    /\ pc = "rmtree_python"
    /\ IF PythonExists
       THEN python' = NoPython /\ Did({"rmtree_python"})
       ELSE UNCHANGED <<python, effects>>
    /\ pc' = "pbs_install"
    /\ UNCHANGED <<system, archive, xcaddy, zip, target, buildDir, output,
                   binFiles, installLib, environ, installEnv, buildEnv,
                   exitCode, error, extFail, cleanStart, fresh>>

\* pbs_installer.install: downloads and unpacks the runtime; a failure leaves
\* the directory with none or some of its files
install_pbs ==
    /\ pc = "pbs_install"
    /\ Did({"pbs_install"})
    /\ \E installed \in BOOLEAN :
         IF installed
         THEN /\ python' = [exists |-> TRUE, files |-> PbsFiles]
              /\ pc' = "windows_pkg_config"
              /\ UNCHANGED <<error, extFail>>
         ELSE /\ \E part \in {{}, {File("bin", "python", "3", "")}} :
                    python' = [exists |-> TRUE, files |-> part]
              /\ Raise("PbsError: install")
              /\ extFail' = TRUE
    /\ UNCHANGED <<system, archive, xcaddy, zip, target, buildDir, output,
                   binFiles, installLib, environ, installEnv, buildEnv,
                   exitCode, cleanStart, fresh>>

windows_pkg_config ==
    /\ pc = "windows_pkg_config"
    /\ IF is_windows
       THEN /\ python' = [exists |-> TRUE, files |-> python.files \cup {PcFile}]
            /\ Did({"windows_pkg_config"})
       ELSE UNCHANGED <<python, effects>>
    /\ pc' = "xcaddy_build"
    /\ UNCHANGED <<system, archive, xcaddy, zip, target, buildDir, output,
                   binFiles, installLib, environ, installEnv, buildEnv,
                   exitCode, error, extFail, cleanStart, fresh>>

\* subprocess.run(args, check=False, env=env): the command writes the output
\* file or leaves the path as it was, and exits with any code
xcaddy_build ==
    /\ pc = "xcaddy_build"
    /\ buildEnv' = BuildEnvironment
    /\ Did({"xcaddy_build"})
    /\ \E written \in BOOLEAN, code \in {0, 1} :
         /\ exitCode' = code
         /\ IF written
            THEN /\ output' = [exists |-> TRUE, mode |-> DefaultMode]
                 /\ fresh' = TRUE
                 /\ UNCHANGED extFail
            ELSE /\ extFail' = TRUE
                 /\ UNCHANGED <<output, fresh>>
    /\ pc' = "check_output"
    /\ UNCHANGED <<system, archive, xcaddy, zip, target, python, buildDir,
                   binFiles, installLib, environ, installEnv, error, cleanStart>>

check_output ==
    /\ pc = "check_output"
    /\ IF OutputMissing
       THEN /\ Raise("RuntimeError: Build failed, output not found")
            /\ UNCHANGED <<output, effects>>
       ELSE /\ output' = [output EXCEPT !.exists = TRUE, !.mode = ExecutableMode]
            /\ Did({"chmod"})
            /\ pc' = "copy_dlls"
            /\ UNCHANGED error
    /\ UNCHANGED <<system, archive, xcaddy, zip, target, python, buildDir,
                   binFiles, installLib, environ, installEnv, buildEnv,
                   exitCode, extFail, cleanStart, fresh>>

copy_dlls ==
    /\ pc = "copy_dlls"
    /\ IF is_windows
       THEN /\ binFiles' = binFiles \cup Glob(python.files, "", "python", "dll")
            /\ Did({"copy_dll"})
       ELSE UNCHANGED <<binFiles, effects>>
    /\ pc' = "copy_dylib"
    /\ UNCHANGED <<system, archive, xcaddy, zip, target, python, buildDir,
                   output, installLib, environ, installEnv, buildEnv,
                   exitCode, error, extFail, cleanStart, fresh>>

\* next() of the glob raises StopIteration when nothing matches; /install/lib
\* is outside the working directory and the copy into it may fail
copy_dylib ==
    /\ pc = "copy_dylib"
    /\ IF is_cibuildwheel /\ is_macos
       THEN LET dylibs == Glob(python.files, "lib", "libpython", "dylib")
            IN  IF dylibs = {}
                THEN /\ Raise("StopIteration")
                     /\ UNCHANGED <<installLib, effects, extFail>>
                ELSE \E dylib \in dylibs, copied \in BOOLEAN :
                       /\ Did({"copy_dylib"})
                       /\ IF copied
                          THEN /\ installLib' = installLib \cup {dylib}
                               /\ pc' = "returned"
                               /\ UNCHANGED <<error, extFail>>
                          ELSE /\ Raise("OSError: copy")
                               /\ extFail' = TRUE
                               /\ UNCHANGED installLib
       ELSE /\ pc' = "returned"
            /\ UNCHANGED <<installLib, effects, error, extFail>>
    /\ UNCHANGED <<system, archive, xcaddy, zip, target, python, buildDir,
                   output, binFiles, environ, installEnv, buildEnv, exitCode,
                   cleanStart, fresh>>

\* called by the backend after the artifact of a successful run was packaged
pdm_build_finalize ==
    /\ pc = "returned"
    /\ IF buildDir
       THEN /\ buildDir' = FALSE
            /\ output' = NoOutput
            /\ binFiles' = {}
       ELSE UNCHANGED <<buildDir, output, binFiles>>
    /\ pc' = "idle"
    /\ UNCHANGED <<system, archive, xcaddy, zip, target, python, installLib,
                   environ, installEnv, buildEnv, exitCode, error, effects,
                   extFail, cleanStart, fresh>>

Next ==
    \/ pdm_build_initialize
    \/ do_not_cross_compile
    \/ ensure_build_dir
    \/ setup_xcaddy
    \/ download
    \/ rmtree_target
    \/ unpack
    \/ patch
    \/ rmtree_python
    \/ install_pbs
    \/ windows_pkg_config
    \/ xcaddy_build
    \/ check_output
    \/ copy_dlls
    \/ copy_dylib
    \/ pdm_build_finalize

Spec == Init /\ [][Next]_vars

----------------------------------------------------------------------------
(* Properties *)

BuildFailed == "RuntimeError: Build failed, output not found"

CrossEnv == "GOOS" \in DOMAIN environ \/ "GOARCH" \in DOMAIN environ

AfterCheck == {"copy_dlls", "copy_dylib", "returned", "raised"}

AfterPatch == {"rmtree_python", "pbs_install", "windows_pkg_config",
               "xcaddy_build", "check_output", "copy_dlls", "copy_dylib",
               "returned"}

\* C1: once the build command has returned and the output was checked, the
\* "Build failed" error has been raised if and only if the output path does
\* not exist, whatever the command's exit code; when it is raised nothing
\* was chmod-ed or copied, and when it is not the only other way the run
\* can end in an error is the copy of a companion file.
BuildFailedIffOutputMissing ==
    ("xcaddy_build" \in effects /\ pc \in AfterCheck) =>
        /\ (error = BuildFailed) <=> ~output.exists
        /\ error = BuildFailed =>
              effects \cap {"chmod", "copy_dll", "copy_dylib"} = {}
        /\ error \in {"none", BuildFailed, "OSError: copy"}
        /\ pc = "returned" => error = "none"

\* C1 witness: a run reported success although the build command exited
\* non-zero, because the artifact was there.
NonZeroExitReportedSuccess ==
    pc = "returned" /\ exitCode = 1 /\ output.exists /\ error = "none"

\* C2: with GOOS or GOARCH in the environment the run does nothing but raise
\* the configuration error: no step has acted, and no step of the run changes
\* the filesystem or hands an environment to a command.
CrossCompileFailsFirst ==
    /\ [](CrossEnv =>
            /\ pc \in {"do_not_cross_compile", "raised"}
            /\ effects = {}
            /\ installEnv = NoEnv /\ buildEnv = NoEnv
            /\ pc = "raised" =>
                  error = "RuntimeError: cross-compilation is not supported")
    /\ [][CrossEnv' => UNCHANGED fsvars]_vars

\* C2 witness: a run on a working directory that earlier runs had filled was
\* refused because of a cross-compilation variable.
CrossCompileRefused ==
    /\ CrossEnv /\ pc = "raised" /\ xcaddy /\ zip = "complete"
    /\ "GOOS" \notin DOMAIN environ

\* C3: applying the token rename to a file the pipeline has already patched
\* once gives the same text again.
RenameIdempotent ==
    target.patches = 1 => TokenRename(target.c) = target.c

\* C4: when the builder executable exists, setup_xcaddy goes on to the next
\* step without looking up go, without running the install command and
\* without changing the filesystem.
CacheHitHasNoEffect ==
    [][(pc = "setup_xcaddy" /\ xcaddy) =>
          /\ UNCHANGED fsvars
          /\ UNCHANGED <<effects, installEnv, error>>
          /\ pc' = "download"]_vars

\* C4 witness: the run is past setup_xcaddy and got there on a cache hit.
CacheHitTaken ==
    /\ pc = "download" /\ xcaddy
    /\ effects \cap {"which_go", "go_install"} = {}

\* C5: extraction always starts without an extracted directory, the patcher
\* is handed the archive's text, unpatched, and from then on the run works
\* on a text patched exactly once; the archive file changes only when it
\* was absent.
NeverReusesExtractedTree ==
    /\ [](/\ pc = "unpack" => target.state = "absent"
          /\ pc = "patch" =>
                target = [state |-> "full", c |-> archive, patches |-> 0]
          /\ pc \in AfterPatch =>
                /\ target.state = "full"
                /\ target.patches = 1
                /\ target.c = TokenRename(archive))
    /\ [][zip' # zip => zip = "absent" /\ pc = "download"]_vars

\* C5 witness: the run removed a tree an earlier run had patched, and then
\* patched a fresh extraction once.
StaleTreeReplaced ==
    /\ pc = "rmtree_python"
    /\ "removed_patched_tree" \in effects
    /\ target.patches = 1

\* C6: a run that follows earlier runs, and in which no external step fails
\* and no cross-compilation is requested, ends with success and the artifact
\* at the output path.
RerunConverges ==
    (~cleanStart /\ ~extFail /\ ~CrossEnv /\ pc \in {"raised", "returned"}) =>
        pc = "returned" /\ output.exists

\* C7: when go is not found, the error is raised before the run has created
\* a directory, written a file or started a process.
GoMissingBeforeAnyEffect ==
    error = "RuntimeError: golang is required" =>
        effects \subseteq {"which_go"}

\* C8: a run that starts on clean directories and in which every external
\* step succeeds does not raise, and when it returns the artifact is at the
\* output path, written by this run, with mode 0o777, and on Windows every
\* python*.dll of the runtime is beside it.  Until it returns the run always
\* has a next step to take.
CleanRunSucceeds ==
    (cleanStart /\ ~extFail /\ ~CrossEnv) =>
        /\ pc # "raised"
        /\ pc # "returned" => ENABLED Next
        /\ pc = "returned" =>
              /\ output.exists /\ fresh
              /\ output.mode = 511
              /\ python.files \cap PbsFiles = PbsFiles
              /\ system = "Windows" =>
                    /\ \A f \in python.files :
                          (f.dir = "" /\ f.pre = "python" /\ f.ext = "dll")
                              => f \in binFiles
                    /\ Cardinality(binFiles) = 2

\* C8 witness: a clean Windows run has returned with the runtime's DLLs
\* copied.
CleanWindowsRunReturned ==
    /\ pc = "returned" /\ cleanStart /\ ~extFail /\ system = "Windows"
    /\ binFiles # {} /\ exitCode = 0

SuccessMeansFreshArtifact ==
    pc = "returned" => fresh

====
